---- MODULE Spec2Model ----
(***************************************************************************)
(* Cell-footer toolbar plugins for JupyterLab (yxzhan/extension-examples). *)
(* Two variants of the same plugin pair are modelled:                      *)
(*   "rich"   - src/unnamed/part_000 (run, interrupt, show/hide, clear)    *)
(*   "simple" - src/cell-toolbar/src/index.ts (spacer, run, interrupt,     *)
(*              clear)                                                     *)
(* The host (application shell, notebook tracker, command registry,        *)
(* NotebookActions) is modelled by the calls the plugin makes on it.       *)
(***************************************************************************)
EXTENDS Naturals, Sequences, FiniteSets

VARIABLES
    variant,         \* which of the two source files is installed
    activateResult,  \* promise returned by activateCommands: "none" before the call
    thenState,       \* the .then continuation on app.restored: "unset", "waiting", "done"
    restored,        \* app.restored has resolved
    factoryActive,   \* the cellFactory plugin has built its ContentFactoryWithFooterButton
    regCount,        \* per command id, how many times commands.addCommand was called
    trackerCurrent,  \* tracker.currentWidget (a notebook name or Null)
    shellCurrent,    \* app.shell.currentWidget (a widget name or Null)
    footers,         \* the CellFooterWithButton instances created so far (their fields)
    view,            \* per footer, the element list produced by its latest render()
    clickCount,      \* number of button clicks so far
    toggleCount,     \* per footer, number of clicks on its toggle button so far
    issuedCount,     \* number of this.commands.execute calls made by the footers
    runPending,      \* some delegated NotebookActions.run promise has not settled yet
    last             \* the most recent call on the command registry and what it did

vars == <<variant, activateResult, thenState, restored, factoryActive, regCount,
          trackerCurrent, shellCurrent, footers, view, clickCount, toggleCount,
          issuedCount, runPending, last>>

----------------------------------------------------------------------------
(* Bounds of the model *)

MaxFooters == 2
MaxClicks == 3

----------------------------------------------------------------------------
(* Values *)

Null == "null"
Variants == {"rich", "simple"}
Notebooks == {"nb1", "nb2"}
OtherWidgets == {"terminal"}
Widgets == Notebooks \cup OtherWidgets

\* Values of args.activate a caller may pass ("absent": the key is missing).
ActivateArgs == {"absent", "true", "false"}

\* COMMANDS
HIDE_CELL_CODE == "hide-cell-code"
SHOW_CELL_CODE == "show-cell-code"
RUN_SELECTED_CODECELL == "run-selected-codecell"
INTERRUPT_KERNEL == "notebook:interrupt-kernel"
CLEAR_SELECTED_OUTPUT == "clear-output-cell"

\* CSS_CLASSES
CELL_FOOTER_DIV == "ccb-cellFooterContainer"
CELL_FOOTER_BUTTON == "ccb-cellFooterBtn"
CELL_TOGGLE_BUTTON == ".ccb-toggleBtn"

\* Icon fields of CellFooterWithButton
RUN_ICON == "fa-solid fa-circle-play"
CLEAR_ICON(v) == IF v = "rich" THEN "fa-solid fa-circle-xmark" ELSE "fa-solid fa-ban"
STOP_ICON == "fa-solid fa-stop"
HIDE_ICON == "fa-solid fa-eye-slash"
SHOW_ICON == "fa-solid fa-eye"

\* The ids activateCommands registers in variant v, in addCommand order.
RegisteredIds(v) ==
    IF v = "rich"
    THEN <<HIDE_CELL_CODE, SHOW_CELL_CODE, RUN_SELECTED_CODECELL, CLEAR_SELECTED_OUTPUT>>
    ELSE <<RUN_SELECTED_CODECELL, CLEAR_SELECTED_OUTPUT>>

LayerCommands(v) == {RegisteredIds(v)[i] : i \in DOMAIN RegisteredIds(v)}
AllLayerCommands == LayerCommands("rich") \cup LayerCommands("simple")

\* A NotebookPanel as the handlers read it: id, content, context.sessionContext.
NotebookPanel(w) ==
    [id |-> <<"id", w>>,
     content |-> <<"content", w>>,
     context |-> [sessionContext |-> <<"sessionContext", w>>]]

\* A call made on the host, in the order the handler makes it.
HostCall(fn, args) == [fn |-> fn, args |-> args]

----------------------------------------------------------------------------
(* activateCommands: the helpers and handlers defined in the continuation *)

\* Mutant of getCurrent: the activate argument is ignored.
getCurrentAlwaysActivates(activateArg) ==
    LET widget == trackerCurrent
    IN  [widget |-> widget,
         calls |-> IF widget # Null
                   THEN <<HostCall("shell.activateById", <<NotebookPanel(widget).id>>)>>
                   ELSE <<>>]

\* getCurrent(args): the tracked widget, after asking the shell to activate it
\* unless args.activate is exactly false.
getCurrent(activateArg) ==
    LET widget == trackerCurrent
        activate == activateArg # "false"
    IN  [widget |-> widget,
         calls |-> IF activate /\ widget # Null
                   THEN <<HostCall("shell.activateById", <<NotebookPanel(widget).id>>)>>
                   ELSE <<>>]

\* Mutant of isEnabled: the null test is missing.
isEnabledNoNullCheck == trackerCurrent = shellCurrent

\* isEnabled(): evaluated on the tracker and the shell as they are at the call.
isEnabled ==
    /\ trackerCurrent # Null
    /\ trackerCurrent = shellCurrent

\* execute of HIDE_CELL_CODE
executeHideCode(activateArg) ==
    LET current == getCurrent(activateArg)
    IN  IF current.widget # Null
        THEN [calls |-> current.calls \o
                        <<HostCall("NotebookActions.hideCode",
                                   <<NotebookPanel(current.widget).content>>)>>,
              raised |-> FALSE]
        ELSE [calls |-> current.calls, raised |-> FALSE]

\* execute of SHOW_CELL_CODE
executeShowCode(activateArg) ==
    LET current == getCurrent(activateArg)
    IN  IF current.widget # Null
        THEN [calls |-> current.calls \o
                        <<HostCall("NotebookActions.showCode",
                                   <<NotebookPanel(current.widget).content>>)>>,
              raised |-> FALSE]
        ELSE [calls |-> current.calls, raised |-> FALSE]

\* Mutant of executeRun: the session context is read from the shell's current widget.
executeRunShellSession(activateArg) ==
    LET current == getCurrent(activateArg)
    IN  IF current.widget # Null
        THEN [calls |-> current.calls \o
                        <<HostCall("NotebookActions.run",
                                   <<NotebookPanel(current.widget).content,
                                     NotebookPanel(shellCurrent).context.sessionContext>>)>>,
              raised |-> FALSE]
        ELSE [calls |-> current.calls, raised |-> FALSE]

\* Mutant of executeRun: the test of current is missing.
executeRunUnguarded(activateArg) ==
    LET current == getCurrent(activateArg)
    IN  [calls |-> current.calls \o
                   <<HostCall("NotebookActions.run",
                              <<NotebookPanel(current.widget).content,
                                NotebookPanel(current.widget).context.sessionContext>>)>>,
         raised |-> current.widget = Null]

\* execute of RUN_SELECTED_CODECELL
executeRun(activateArg) ==
    LET current == getCurrent(activateArg)
    IN  IF current.widget # Null
        THEN [calls |-> current.calls \o
                        <<HostCall("NotebookActions.run",
                                   <<NotebookPanel(current.widget).content,
                                     NotebookPanel(current.widget).context.sessionContext>>)>>,
              raised |-> FALSE]
        ELSE [calls |-> current.calls, raised |-> FALSE]

\* execute of CLEAR_SELECTED_OUTPUT
executeClearOutputs(activateArg) ==
    LET current == getCurrent(activateArg)
    IN  IF current.widget # Null
        THEN [calls |-> current.calls \o
                        <<HostCall("NotebookActions.clearOutputs",
                                   <<NotebookPanel(current.widget).content>>)>>,
              raised |-> FALSE]
        ELSE [calls |-> current.calls, raised |-> FALSE]

\* The execute option given to addCommand for each id.
Handler(id, activateArg) ==
    CASE id = HIDE_CELL_CODE -> executeHideCode(activateArg)
      [] id = SHOW_CELL_CODE -> executeShowCode(activateArg)
      [] id = RUN_SELECTED_CODECELL -> executeRun(activateArg)
      [] id = CLEAR_SELECTED_OUTPUT -> executeClearOutputs(activateArg)

----------------------------------------------------------------------------
(* The command registry as the plugin uses it *)

IsRegistered(id) == id \in DOMAIN regCount /\ regCount[id] > 0

\* commands.execute(id, args): the registered handler runs synchronously; an id
\* that is not registered gives a rejected promise and no handler runs. The
\* interrupt command belongs to the host.
Dispatch(id, activateArg) ==
    IF id = INTERRUPT_KERNEL
    THEN [handler |-> "host", calls |-> <<>>, raised |-> FALSE]
    ELSE IF IsRegistered(id)
    THEN [handler |-> "layer",
          calls |-> Handler(id, activateArg).calls,
          raised |-> Handler(id, activateArg).raised]
    ELSE [handler |-> "none", calls |-> <<>>, raised |-> FALSE]

\* shell.activateById(id) makes the widget with that id the shell's current one.
RECURSIVE ShellAfter(_, _)
ShellAfter(current, calls) ==
    IF calls = <<>> THEN current
    ELSE LET c == Head(calls)
         IN  ShellAfter(IF c.fn = "shell.activateById"
                        THEN CHOOSE w \in Widgets : NotebookPanel(w).id = c.args[1]
                        ELSE current,
                        Tail(calls))

\* NotebookActions.run returns a promise the handler does not await.
RunCalls(calls) == Cardinality({i \in DOMAIN calls : calls[i].fn = "NotebookActions.run"})

\* No footer: the call did not come from a footer button.
NoSource == [footer |-> 0, button |-> ""]

NoCall == [op |-> "none", id |-> "", activate |-> "absent", handler |-> "none",
           calls |-> <<>>, raised |-> FALSE, result |-> FALSE, source |-> NoSource]

\* One commands.execute(id, args) call and what it does to the host.
RegistryExecute(id, activateArg, source) ==
    LET r == Dispatch(id, activateArg)
    IN  /\ last' = [op |-> "execute", id |-> id, activate |-> activateArg,
                    handler |-> r.handler, calls |-> r.calls, raised |-> r.raised,
                    result |-> FALSE, source |-> source]
        /\ shellCurrent' = ShellAfter(shellCurrent, r.calls)
        /\ runPending' = (runPending \/ RunCalls(r.calls) > 0)
        /\ trackerCurrent' = trackerCurrent

----------------------------------------------------------------------------
(* CellFooterWithButton *)

Element(tag, className, title, icon, button) ==
    [tag |-> tag, className |-> className, title |-> title, icon |-> icon,
     button |-> button]

\* new CellFooterWithButton(commands)
NewFooter(v) ==
    IF v = "rich"
    THEN [commands |-> "app.commands", codeVisible |-> TRUE]
    ELSE [commands |-> "app.commands"]

\* Mutant of render: the clear button is left out while the code is hidden.
renderDropsClearWhenHidden(v, footer) ==
    IF v = "rich"
    THEN LET toggleIcon == IF footer.codeVisible THEN HIDE_ICON ELSE SHOW_ICON
             head == << Element("button", <<CELL_FOOTER_BUTTON>>, "Run this cell",
                                RUN_ICON, "run"),
                        Element("button", <<CELL_FOOTER_BUTTON>>, "Interrupt Execution",
                                STOP_ICON, "interrupt"),
                        Element("button", <<CELL_FOOTER_BUTTON, CELL_TOGGLE_BUTTON>>,
                                "Hide or show code", toggleIcon, "toggle") >>
         IN  IF footer.codeVisible
             THEN Append(head, Element("button", <<CELL_FOOTER_BUTTON>>,
                                       "Click to clear cell output", CLEAR_ICON(v), "clear"))
             ELSE head
    ELSE << Element("div", <<"jp-Placeholder-prompt", "jp-InputPrompt">>, "", "", ""),
            Element("button", <<CELL_FOOTER_BUTTON>>, "Run this cell",
                    RUN_ICON, "run"),
            Element("button", <<CELL_FOOTER_BUTTON>>, "Interrupt Execution",
                    STOP_ICON, "interrupt"),
            Element("button", <<CELL_FOOTER_BUTTON>>, "Clear cell output",
                    CLEAR_ICON(v), "clear") >>

\* render(): the children of the container div, in order.
render(v, footer) ==
    IF v = "rich"
    THEN LET toggleIcon == IF footer.codeVisible THEN HIDE_ICON ELSE SHOW_ICON
         IN  << Element("button", <<CELL_FOOTER_BUTTON>>, "Run this cell",
                        RUN_ICON, "run"),
                Element("button", <<CELL_FOOTER_BUTTON>>, "Interrupt Execution",
                        STOP_ICON, "interrupt"),
                Element("button", <<CELL_FOOTER_BUTTON, CELL_TOGGLE_BUTTON>>,
                        "Hide or show code", toggleIcon, "toggle"),
                Element("button", <<CELL_FOOTER_BUTTON>>, "Click to clear cell output",
                        CLEAR_ICON(v), "clear") >>
    ELSE << Element("div", <<"jp-Placeholder-prompt", "jp-InputPrompt">>, "", "", ""),
            Element("button", <<CELL_FOOTER_BUTTON>>, "Run this cell",
                    RUN_ICON, "run"),
            Element("button", <<CELL_FOOTER_BUTTON>>, "Interrupt Execution",
                    STOP_ICON, "interrupt"),
            Element("button", <<CELL_FOOTER_BUTTON>>, "Clear cell output",
                    CLEAR_ICON(v), "clear") >>

\* Mutant of onClick: the toggle picks its command before flipping the flag.
onClickStaleFlag(footer, button) ==
    CASE button = "run" ->
           [footer |-> footer, execute |-> <<RUN_SELECTED_CODECELL>>, update |-> FALSE]
      [] button = "interrupt" ->
           [footer |-> footer, execute |-> <<INTERRUPT_KERNEL>>, update |-> FALSE]
      [] button = "clear" ->
           [footer |-> footer, execute |-> <<CLEAR_SELECTED_OUTPUT>>, update |-> FALSE]
      [] button = "toggle" ->
           [footer |-> [footer EXCEPT !.codeVisible = ~footer.codeVisible],
            execute |-> IF footer.codeVisible THEN <<SHOW_CELL_CODE>>
                                              ELSE <<HIDE_CELL_CODE>>,
            update |-> TRUE]

\* Mutant of onClick: a click is ignored while a delegated run is pending.
onClickSkipsWhilePending(footer, button) ==
    IF runPending
    THEN [footer |-> footer, execute |-> <<>>, update |-> FALSE]
    ELSE CASE button = "run" ->
                [footer |-> footer, execute |-> <<RUN_SELECTED_CODECELL>>,
                 update |-> FALSE]
           [] button = "interrupt" ->
                [footer |-> footer, execute |-> <<INTERRUPT_KERNEL>>, update |-> FALSE]
           [] button = "clear" ->
                [footer |-> footer, execute |-> <<CLEAR_SELECTED_OUTPUT>>,
                 update |-> FALSE]
           [] button = "toggle" ->
                LET flipped == [footer EXCEPT !.codeVisible = ~footer.codeVisible]
                IN  [footer |-> flipped,
                     execute |-> IF flipped.codeVisible THEN <<SHOW_CELL_CODE>>
                                                        ELSE <<HIDE_CELL_CODE>>,
                     update |-> TRUE]

\* Mutant of onClick: the toggle flips the flag only while the command is enabled.
onClickFlipsWhenEnabled(footer, button) ==
    CASE button = "run" ->
           [footer |-> footer, execute |-> <<RUN_SELECTED_CODECELL>>, update |-> FALSE]
      [] button = "interrupt" ->
           [footer |-> footer, execute |-> <<INTERRUPT_KERNEL>>, update |-> FALSE]
      [] button = "clear" ->
           [footer |-> footer, execute |-> <<CLEAR_SELECTED_OUTPUT>>, update |-> FALSE]
      [] button = "toggle" ->
           LET flipped == IF isEnabled
                          THEN [footer EXCEPT !.codeVisible = ~footer.codeVisible]
                          ELSE footer
           IN  [footer |-> flipped,
                execute |-> IF flipped.codeVisible THEN <<SHOW_CELL_CODE>>
                                                   ELSE <<HIDE_CELL_CODE>>,
                update |-> TRUE]

\* The onClick handlers: the footer's fields afterwards, the ids passed to
\* this.commands.execute, and whether this.update() is called.
onClick(footer, button) ==
    CASE button = "run" ->
           [footer |-> footer, execute |-> <<RUN_SELECTED_CODECELL>>, update |-> FALSE]
      [] button = "interrupt" ->
           [footer |-> footer, execute |-> <<INTERRUPT_KERNEL>>, update |-> FALSE]
      [] button = "clear" ->
           [footer |-> footer, execute |-> <<CLEAR_SELECTED_OUTPUT>>, update |-> FALSE]
      [] button = "toggle" ->
           LET flipped == [footer EXCEPT !.codeVisible = ~footer.codeVisible]
           IN  [footer |-> flipped,
                execute |-> IF flipped.codeVisible THEN <<SHOW_CELL_CODE>>
                                                   ELSE <<HIDE_CELL_CODE>>,
                update |-> TRUE]

----------------------------------------------------------------------------------------------------------------------------------------------
(* Initial state: the application has started, no plugin is active yet. *)

Init ==
    /\ variant \in Variants
    /\ activateResult = "none"
    /\ thenState = "unset"
    /\ restored = FALSE
    /\ factoryActive = FALSE
    /\ regCount = [id \in AllLayerCommands |-> 0]
    /\ trackerCurrent = Null
    /\ shellCurrent = Null
    /\ footers = <<>>
    /\ view = <<>>
    /\ clickCount = 0
    /\ toggleCount = <<>>
    /\ issuedCount = 0
    /\ runPending = FALSE
    /\ last = NoCall

----------------------------------------------------------------------------
(* Plugin lifecycle *)

\* What activateCommands returns: Promise.resolve(), not the chained promise.
ActivateReturn == "resolved"

\* Mutant of ActivateCommands: the commands are added in the call itself,
\* without waiting for app.restored.
ActivateCommandsRegistersNow ==
    /\ activateResult = "none"
    /\ activateResult' = ActivateReturn
    /\ thenState' = "done"
    /\ regCount' = [id \in AllLayerCommands |->
                      IF id \in LayerCommands(variant) THEN regCount[id] + 1
                                                       ELSE regCount[id]]
    /\ UNCHANGED <<variant, restored, factoryActive, trackerCurrent, shellCurrent,
                   footers, view, clickCount, toggleCount, issuedCount, runPending,
                   last>>

\* footerButtonExtension.activate = activateCommands(app, tracker): chains the
\* continuation on app.restored and returns Promise.resolve().
ActivateCommands ==
    /\ activateResult = "none"
    /\ activateResult' = ActivateReturn
    /\ thenState' = "waiting"
    /\ UNCHANGED <<variant, restored, factoryActive, regCount, trackerCurrent,
                   shellCurrent, footers, view, clickCount, toggleCount,
                   issuedCount, runPending, last>>

\* The host resolves app.restored.
Restored ==
    /\ ~restored
    /\ restored' = TRUE
    /\ UNCHANGED <<variant, activateResult, thenState, factoryActive, regCount,
                   trackerCurrent, shellCurrent, footers, view, clickCount,
                   toggleCount, issuedCount, runPending, last>>

\* Mutant of ContinuationReady: the continuation does not wait for app.restored.
ContinuationReadyEager == thenState = "waiting"

\* When the continuation may run.
ContinuationReady == thenState = "waiting" /\ restored

\* The continuation of Promise.all([app.restored]): one addCommand per id.
RegisterCommands ==
    /\ ContinuationReady
    /\ thenState' = "done"
    /\ regCount' = [id \in AllLayerCommands |->
                      IF id \in LayerCommands(variant) THEN regCount[id] + 1
                                                       ELSE regCount[id]]
    /\ UNCHANGED <<variant, activateResult, restored, factoryActive, trackerCurrent,
                   shellCurrent, footers, view, clickCount, toggleCount,
                   issuedCount, runPending, last>>

\* cellFactory.activate: returns new ContentFactoryWithFooterButton(commands, ...).
ActivateFactory ==
    /\ ~factoryActive
    /\ factoryActive' = TRUE
    /\ UNCHANGED <<variant, activateResult, thenState, restored, regCount,
                   trackerCurrent, shellCurrent, footers, view, clickCount,
                   toggleCount, issuedCount, runPending, last>>

\* ContentFactoryWithFooterButton.createCellFooter(), then the widget's first render.
CreateCellFooter ==
    /\ factoryActive
    /\ Len(footers) < MaxFooters
    /\ footers' = Append(footers, NewFooter(variant))
    /\ view' = Append(view, render(variant, NewFooter(variant)))
    /\ toggleCount' = Append(toggleCount, 0)
    /\ UNCHANGED <<variant, activateResult, thenState, restored, factoryActive,
                   regCount, trackerCurrent, shellCurrent, clickCount, issuedCount,
                   runPending, last>>

----------------------------------------------------------------------------
(* User and host events *)

\* A click on the k-th rendered element of footer f, which is a button.
Click(f, k) ==
    /\ clickCount < MaxClicks
    /\ f \in DOMAIN footers
    /\ k \in DOMAIN view[f]
    /\ view[f][k].tag = "button"
    /\ LET button == view[f][k].button
           r == onClick(footers[f], button)
       IN  /\ clickCount' = clickCount + 1
           /\ toggleCount' = IF button = "toggle"
                             THEN [toggleCount EXCEPT ![f] = @ + 1]
                             ELSE toggleCount
           /\ footers' = [footers EXCEPT ![f] = r.footer]
           /\ issuedCount' = issuedCount + Len(r.execute)
           /\ view' = IF r.update
                      THEN [view EXCEPT ![f] = render(variant, r.footer)]
                      ELSE view
           /\ IF r.execute # <<>>
              THEN RegistryExecute(r.execute[Len(r.execute)], "absent",
                                   [footer |-> f, button |-> button])
              ELSE UNCHANGED <<last, shellCurrent, runPending, trackerCurrent>>
    /\ UNCHANGED <<variant, activateResult, thenState, restored, factoryActive,
                   regCount>>

\* Another caller (palette, key binding, extension) executes one of the ids.
ExecuteCommand(id, activateArg) ==
    /\ RegistryExecute(id, activateArg, NoSource)
    /\ UNCHANGED <<variant, activateResult, thenState, restored, factoryActive,
                   regCount, footers, view, clickCount, toggleCount, issuedCount>>

\* The host asks whether a registered command is enabled.
QueryIsEnabled(id) ==
    /\ IsRegistered(id)
    /\ last' = [op |-> "isEnabled", id |-> id, activate |-> "absent",
                handler |-> "layer", calls |-> <<>>, raised |-> FALSE,
                result |-> isEnabled, source |-> NoSource]
    /\ UNCHANGED <<variant, activateResult, thenState, restored, factoryActive,
                   regCount, trackerCurrent, shellCurrent, footers, view,
                   clickCount, toggleCount, issuedCount, runPending>>

\* The shell's current widget changes (focus moves, or the widget closes).
ShellChange(w) ==
    /\ w # shellCurrent
    /\ shellCurrent' = w
    /\ UNCHANGED <<variant, activateResult, thenState, restored, factoryActive,
                   regCount, trackerCurrent, footers, view, clickCount,
                   toggleCount, issuedCount, runPending, last>>

\* The tracker's current widget changes.
TrackerChange(w) ==
    /\ w # trackerCurrent
    /\ trackerCurrent' = w
    /\ UNCHANGED <<variant, activateResult, thenState, restored, factoryActive,
                   regCount, shellCurrent, footers, view, clickCount, toggleCount,
                   issuedCount, runPending, last>>

\* The delegated NotebookActions.run promises settle.
RunSettles ==
    /\ runPending
    /\ runPending' = FALSE
    /\ UNCHANGED <<variant, activateResult, thenState, restored, factoryActive,
                   regCount, trackerCurrent, shellCurrent, footers, view,
                   clickCount, toggleCount, issuedCount, last>>

Next ==
    \/ ActivateCommands
    \/ Restored
    \/ RegisterCommands
    \/ ActivateFactory
    \/ CreateCellFooter
    \/ \E f \in 1..MaxFooters, k \in 1..4 : Click(f, k)
    \/ \E id \in AllLayerCommands, a \in ActivateArgs : ExecuteCommand(id, a)
    \/ \E id \in AllLayerCommands : QueryIsEnabled(id)
    \/ \E w \in Widgets \cup {Null} : ShellChange(w)
    \/ \E w \in Notebooks \cup {Null} : TrackerChange(w)
    \/ RunSettles

Spec == Init /\ [][Next]_vars

\* The continuation is a promise reaction: once ready it is run.
FairSpec == Spec /\ WF_vars(RegisterCommands)

TypeOK ==
    /\ variant \in Variants
    /\ activateResult \in {"none", "resolved", "pending"}
    /\ thenState \in {"unset", "waiting", "done"}
    /\ restored \in BOOLEAN
    /\ factoryActive \in BOOLEAN
    /\ regCount \in [AllLayerCommands -> 0..2]
    /\ trackerCurrent \in Notebooks \cup {Null}
    /\ shellCurrent \in Widgets \cup {Null}
    /\ Len(footers) <= MaxFooters
    /\ Len(view) = Len(footers)
    /\ Len(toggleCount) = Len(footers)
    /\ clickCount \in 0..MaxClicks
    /\ issuedCount \in 0..MaxClicks
    /\ runPending \in BOOLEAN
    /\ last.op \in {"none", "execute", "isEnabled"}

----------------------------------------------------------------------------
(* Steps the properties speak about *)

\* A commands.execute(id, {activate: a}) call, from a footer button or elsewhere;
\* last' tells which.
ExecStep(id, a) ==
    /\ last'.op = "execute"
    /\ last'.id = id
    /\ last'.activate = a
    /\ \/ ExecuteCommand(id, a)
       \/ /\ a = "absent"
          /\ last'.source.footer \in DOMAIN footers
          /\ \E k \in 1..4 : Click(last'.source.footer, k)

\* A click on a button of footer f.
ClickStep(f, button) ==
    /\ clickCount' = clickCount + 1
    /\ \E k \in 1..4 : view[f][k].button = button /\ Click(f, k)

\* The host asks isEnabled of command id.
QueryStep(id) ==
    /\ last'.op = "isEnabled"
    /\ last'.id = id
    /\ QueryIsEnabled(id)

\* The calls of a call list made on NotebookActions.
ActionCalls(calls) ==
    {i \in DOMAIN calls : calls[i].fn # "shell.activateById"}

ActivationCalls(calls) ==
    {i \in DOMAIN calls : calls[i].fn = "shell.activateById"}

\* The NotebookActions function a command delegates to.
HostAction(id) ==
    CASE id = HIDE_CELL_CODE -> "NotebookActions.hideCode"
      [] id = SHOW_CELL_CODE -> "NotebookActions.showCode"
      [] id = RUN_SELECTED_CODECELL -> "NotebookActions.run"
      [] id = CLEAR_SELECTED_OUTPUT -> "NotebookActions.clearOutputs"

\* The arguments that delegation passes when widget w is the target.
HostActionArgs(id, w) ==
    IF id = RUN_SELECTED_CODECELL
    THEN <<NotebookPanel(w).content, NotebookPanel(w).context.sessionContext>>
    ELSE <<NotebookPanel(w).content>>

----------------------------------------------------------------------------
(* C1: for every registered command, isEnabled() returns true exactly when   *)
(* the tracker's current widget is not null and is the shell's current       *)
(* widget, judged on the focus state at the time of the call: false with no  *)
(* tracked notebook, false when the tracked notebook is not the shell's      *)
(* current widget, true otherwise.                                           *)
C1_EnabledIffTrackedIsShellCurrent ==
    [][\A id \in AllLayerCommands :
         QueryStep(id) =>
           /\ trackerCurrent = Null => last'.result = FALSE
           /\ trackerCurrent # shellCurrent => last'.result = FALSE
           /\ (trackerCurrent # Null /\ trackerCurrent = shellCurrent)
                => last'.result = TRUE]_vars

\* A query answered true on the second notebook, focused after the first.
C1_Witness ==
    /\ last.op = "isEnabled"
    /\ last.result
    /\ trackerCurrent = "nb2"
    /\ shellCurrent = "nb2"

(* C2: executing a registered run, clear-output, show-code or hide-code      *)
(* command while the tracker has no current widget makes no call on the      *)
(* host (no notebook action, no shell activation), raises nothing and leaves *)
(* the shell's and the tracker's current widget as they were, whatever the   *)
(* activate argument.                                                        *)
C2_NoWidgetNoOp ==
    [][\A id \in AllLayerCommands, a \in ActivateArgs :
         (trackerCurrent = Null /\ IsRegistered(id) /\ ExecStep(id, a)) =>
           /\ last'.handler = "layer"
           /\ last'.calls = <<>>
           /\ ~last'.raised
           /\ shellCurrent' = shellCurrent
           /\ trackerCurrent' = trackerCurrent
           /\ runPending' = runPending]_vars

\* A handler of this layer ran with nothing tracked while the shell had a widget.
C2_Witness ==
    /\ last.op = "execute"
    /\ last.handler = "layer"
    /\ last.calls = <<>>
    /\ trackerCurrent = Null
    /\ shellCurrent = "terminal"

(* C3: a footer of the richer variant starts with codeVisible true and the   *)
(* eye-slash icon; its N-th toggle click invokes hide-cell-code and shows    *)
(* the eye icon when N is odd, invokes show-cell-code and shows the          *)
(* eye-slash icon when N is even; any other click (another button, another   *)
(* footer) leaves its codeVisible flag alone.                                *)
C3_ToggleAlternates ==
    [][/\ Len(footers') > Len(footers) /\ variant = "rich" =>
            /\ footers'[Len(footers')].codeVisible = TRUE
            /\ view'[Len(view')][3].icon = HIDE_ICON
       /\ \A f \in DOMAIN footers :
            ClickStep(f, "toggle") =>
               /\ last'.op = "execute"
               /\ last'.source = [footer |-> f, button |-> "toggle"]
               /\ toggleCount'[f] % 2 = 1 =>
                    /\ last'.id = HIDE_CELL_CODE
                    /\ view'[f][3].icon = SHOW_ICON
               /\ toggleCount'[f] % 2 = 0 =>
                    /\ last'.id = SHOW_CELL_CODE
                    /\ view'[f][3].icon = HIDE_ICON
       /\ \A f \in DOMAIN footers :
            (variant = "rich" /\ footers'[f].codeVisible # footers[f].codeVisible)
               => ClickStep(f, "toggle")]_vars

\* The third toggle click on the second footer: hide is invoked again.
C3_Witness ==
    /\ variant = "rich"
    /\ Len(footers) = 2
    /\ toggleCount[2] = 3
    /\ last.source = [footer |-> 2, button |-> "toggle"]
    /\ last.id = HIDE_CELL_CODE
    /\ view[2][3].icon = SHOW_ICON
    /\ footers[1].codeVisible

(* C4: the commands are registered once per activation and only after        *)
(* app.restored has resolved: none is registered before restoration, none is *)
(* ever registered twice or removed, creating footers registers nothing, and *)
(* once the plugin is activated and restoration has resolved each command of *)
(* the variant gets registered exactly once.                                 *)
C4_RegisteredOnceAfterRestored ==
    /\ \A id \in AllLayerCommands : regCount[id] = 0
    /\ [][/\ ~restored' => \A id \in AllLayerCommands : regCount'[id] = 0
          /\ \A id \in AllLayerCommands :
               regCount'[id] <= 1 /\ regCount'[id] >= regCount[id]
          /\ thenState' = "done" =>
               \A id \in LayerCommands(variant) : regCount'[id] = 1
          /\ Len(footers') > Len(footers) => regCount' = regCount]_vars
    /\ (activateResult # "none" /\ restored)
         ~> (\A id \in LayerCommands(variant) : regCount[id] = 1)

\* Registered, then both footers created, and the registry still holds each id once.
C4_Witness ==
    /\ restored
    /\ Len(footers) = MaxFooters
    /\ \A id \in LayerCommands(variant) : regCount[id] = 1
    /\ last.handler = "layer"

(* C5: executing a registered command while a notebook is tracked delegates  *)
(* exactly one call to its host action with values read from the widget      *)
(* tracked at that moment: run gets that widget's content together with that *)
(* same widget's session context, the others get that widget's content.      *)
C5_DelegatesTrackedWidget ==
    [][\A id \in AllLayerCommands, a \in ActivateArgs :
         (trackerCurrent # Null /\ IsRegistered(id) /\ ExecStep(id, a)) =>
           /\ Cardinality(ActionCalls(last'.calls)) = 1
           /\ \A i \in ActionCalls(last'.calls) :
                /\ last'.calls[i].fn = HostAction(id)
                /\ last'.calls[i].args = HostActionArgs(id, trackerCurrent)
                /\ id = RUN_SELECTED_CODECELL =>
                     \E w \in Notebooks :
                        /\ w = trackerCurrent
                        /\ last'.calls[i].args[1] = NotebookPanel(w).content
                        /\ last'.calls[i].args[2] =
                             NotebookPanel(w).context.sessionContext]_vars

\* A run button click delegated for the second notebook while an earlier run is pending.
C5_Witness ==
    /\ last.op = "execute"
    /\ last.id = RUN_SELECTED_CODECELL
    /\ last.source.button = "run"
    /\ clickCount >= 2
    /\ Len(last.calls) = 2
    /\ last.calls[2] = HostCall("NotebookActions.run",
                                <<<<"content", "nb2">>, <<"sessionContext", "nb2">>>>)

(* C6: every footer shows the button set of its variant, in order, bound to  *)
(* the same commands whatever the toggle state and the clicks so far: run,   *)
(* interrupt, show/hide toggle, clear in the richer one; a spacer, then run, *)
(* interrupt, clear in the simpler one. Only the toggle's icon varies.       *)
C6_ButtonSet ==
    \A f \in DOMAIN view :
       LET shown == [i \in DOMAIN view[f] |->
                       [tag |-> view[f][i].tag,
                        binds |-> IF view[f][i].tag = "button"
                                  THEN onClick(footers[f], view[f][i].button).execute
                                  ELSE <<>>]]
       IN  /\ view[f] = render(variant, footers[f])
           /\ IF variant = "rich"
              THEN /\ Len(shown) = 4
                   /\ shown[1] = [tag |-> "button", binds |-> <<RUN_SELECTED_CODECELL>>]
                   /\ shown[2] = [tag |-> "button", binds |-> <<INTERRUPT_KERNEL>>]
                   /\ shown[3].tag = "button"
                   /\ view[f][3].button = "toggle"
                   /\ shown[3].binds \in {<<SHOW_CELL_CODE>>, <<HIDE_CELL_CODE>>}
                   /\ shown[4] = [tag |-> "button", binds |-> <<CLEAR_SELECTED_OUTPUT>>]
                   /\ \A i \in {1, 2, 4} :
                        view[f][i] = render(variant, NewFooter(variant))[i]
              ELSE /\ Len(shown) = 4
                   /\ shown[1] = [tag |-> "div", binds |-> <<>>]
                   /\ shown[2] = [tag |-> "button", binds |-> <<RUN_SELECTED_CODECELL>>]
                   /\ shown[3] = [tag |-> "button", binds |-> <<INTERRUPT_KERNEL>>]
                   /\ shown[4] = [tag |-> "button", binds |-> <<CLEAR_SELECTED_OUTPUT>>]

\* A footer whose code is hidden, next to one whose code is visible.
C6_Witness ==
    /\ variant = "rich"
    /\ Len(footers) = 2
    /\ ~footers[1].codeVisible
    /\ footers[2].codeVisible
    /\ clickCount = MaxClicks

(* C7: every click on a footer button issues exactly one commands.execute    *)
(* call in the click itself, with the id bound to that button, whether or    *)
(* not an earlier delegated run is still pending: K clicks give K calls, in  *)
(* click order.                                                              *)
C7_OneInvocationPerClick ==
    /\ issuedCount = clickCount
    /\ [][/\ issuedCount' = clickCount'
          /\ \A f \in DOMAIN footers, button \in {"run", "interrupt", "toggle", "clear"} :
               ClickStep(f, button) =>
                 /\ issuedCount' = issuedCount + 1
                 /\ last'.op = "execute"
                 /\ last'.source = [footer |-> f, button |-> button]
                 /\ last'.activate = "absent"
                 /\ button = "run" => last'.id = RUN_SELECTED_CODECELL
                 /\ button = "interrupt" => last'.id = INTERRUPT_KERNEL
                 /\ button = "clear" => last'.id = CLEAR_SELECTED_OUTPUT
                 /\ button = "toggle" => last'.id \in {SHOW_CELL_CODE, HIDE_CELL_CODE}]_vars

\* A clear click issued while a run delegated by an earlier click is pending.
C7_Witness ==
    /\ runPending
    /\ clickCount = 3
    /\ issuedCount = 3
    /\ last.source.button = "clear"
    /\ last.handler = "layer"

(* C8: an execution of a registered command asks the shell to activate the   *)
(* tracked widget exactly when a widget is tracked and the activate argument *)
(* is not false; the request comes first and names the widget the host       *)
(* action is then applied to; with activate false the shell's current widget *)
(* stays as it was and the host action is still applied to the tracked       *)
(* widget.                                                                   *)
C8_ActivationBeforeAction ==
    [][\A id \in AllLayerCommands, a \in ActivateArgs :
         (IsRegistered(id) /\ ExecStep(id, a)) =>
           /\ (ActivationCalls(last'.calls) # {})
                <=> (trackerCurrent # Null /\ a # "false")
           /\ ActivationCalls(last'.calls) # {} =>
                /\ ActivationCalls(last'.calls) = {1}
                /\ last'.calls[1].args = <<NotebookPanel(trackerCurrent).id>>
                /\ ActionCalls(last'.calls) = {2}
                /\ last'.calls[2].args[1] = NotebookPanel(trackerCurrent).content
                /\ shellCurrent' = trackerCurrent
           /\ a = "false" =>
                /\ shellCurrent' = shellCurrent
                /\ trackerCurrent # Null =>
                     last'.calls = <<HostCall(HostAction(id),
                                              HostActionArgs(id, trackerCurrent))>>]_vars

\* Clear output executed with activate false: applied, focus stays on the terminal.
C8_Witness ==
    /\ last.op = "execute"
    /\ last.activate = "false"
    /\ last.calls = <<HostCall("NotebookActions.clearOutputs", <<<<"content", "nb1">>>>)>>
    /\ shellCurrent = "terminal"

(* C9: a toggle click flips codeVisible and the icon whether or not a        *)
(* notebook is tracked, the command is enabled or the show/hide commands are *)
(* registered: a footer's flag is true exactly when the number of toggle     *)
(* clicks on it is even, and its icon follows the flag.                      *)
C9_FlagIsClickParity ==
    variant = "rich" =>
      \A f \in DOMAIN footers :
         /\ footers[f].codeVisible = (toggleCount[f] % 2 = 0)
         /\ view[f][3].icon = IF toggleCount[f] % 2 = 0 THEN HIDE_ICON ELSE SHOW_ICON

\* Flag flipped by a click although hide-cell-code was not registered and nothing ran.
C9_Witness ==
    /\ variant = "rich"
    /\ Len(footers) >= 1
    /\ toggleCount[1] = 1
    /\ ~footers[1].codeVisible
    /\ ~IsRegistered(HIDE_CELL_CODE)
    /\ last.source = [footer |-> 1, button |-> "toggle"]
    /\ last.handler = "none"
    /\ trackerCurrent = Null

(* C10: activateCommands returns a resolved promise without waiting for      *)
(* app.restored and the footer factory is activated independently, so a      *)
(* button can be clicked before its command is registered; before            *)
(* restoration no command of this layer is registered, no execute handler of *)
(* this layer has run and no host call has been made through it.             *)
C10_NothingRunsBeforeRestored ==
    /\ activateResult \in {"none", "resolved"}
    /\ ~restored =>
         /\ \A id \in AllLayerCommands : ~IsRegistered(id)
         /\ last.handler # "layer"
         /\ last.calls = <<>>
         /\ ~runPending

\* Activation complete, not restored, a footer's run button clicked: no handler.
C10_Witness ==
    /\ activateResult = "resolved"
    /\ ~restored
    /\ Len(footers) >= 1
    /\ clickCount >= 1
    /\ last.op = "execute"
    /\ last.source.button = "run"
    /\ last.id = RUN_SELECTED_CODECELL
    /\ last.handler = "none"

====
